---- MODULE Spec2Model ----
(***************************************************************************)
(* fswhy: the tree scanner (src/src/model.rs), the visibility / index      *)
(* engine (src/src/view.rs) and the interactive loop (src/src/main.rs).    *)
(*                                                                         *)
(* A filesystem is the input of the scanner.  The scanner turns it into a  *)
(* tree of nodes; the loop renders the visible list of that tree and       *)
(* toggles directories by ordinal.                                         *)
(***************************************************************************)
EXTENDS Integers, Sequences, FiniteSets, TLC

\* ------------------------------------------------------------------ bounds
\* Entries below the root in the filesystems given to the scanner alone.
ScanNodes == 2
\* Failing filesystem operations in one of those filesystems.
MaxFaults == 1
\* File lengths are 1..MaxLen.
MaxLen == 2
\* Entries below the root in the filesystems the interactive loop runs on.
TreeNodes == 3

\* ------------------------------------------------------------- filesystem
\* A file name is a sequence of bytes: "a", "ab", "b"; the root is "/".
NameA == <<1>>
NameAB == <<1, 2>>
NameB == <<2>>
RootName == <<0>>
Names == {NameA, NameAB, NameB}

\* What the operating system answers for one directory entry:
\*   meta    - fs::metadata: "file", "dir", or "err" (the call fails);
\*   len     - metadata.len() of a file;
\*   open    - whether fs::read_dir succeeds on a directory;
\*   listing - the entries the ReadDir iterator yields, in its own order;
\*   ends    - how the iterator ends: "eof" (None) or "err" (an Err item).
FileEntry(nm, len) ==
    [name |-> nm, meta |-> "file", len |-> len, open |-> FALSE,
     listing |-> <<>>, ends |-> "eof"]
GoneEntry(nm) ==
    [name |-> nm, meta |-> "err", len |-> 0, open |-> FALSE,
     listing |-> <<>>, ends |-> "eof"]
DirEntry(nm, open, listing, ends) ==
    [name |-> nm, meta |-> "dir", len |-> 0, open |-> open,
     listing |-> listing, ends |-> ends]

ListedNames(l) == {l[i].name : i \in 1..Len(l)}

\* Entries(nms, sub, lens, n, f): the entries named in nms that hold at most n
\* entries (themselves included), named in sub below the top, with file
\* lengths in lens and at most f failing operations.  The names of one
\* listing are distinct.
RECURSIVE Entries(_, _, _, _, _)
RECURSIVE Listings(_, _, _, _)
Entries(nms, sub, lens, n, f) ==
    IF n < 1 THEN {}
    ELSE {FileEntry(nm, len) : nm \in nms, len \in lens}
         \cup {DirEntry(nm, TRUE, l, "eof") : nm \in nms, l \in Listings(sub, lens, n - 1, f)}
         \cup (IF f < 1 THEN {}
               ELSE {GoneEntry(nm) : nm \in nms}
                    \cup {DirEntry(nm, FALSE, <<>>, "eof") : nm \in nms}
                    \cup {DirEntry(nm, TRUE, l, "err") :
                            nm \in nms, l \in Listings(sub, lens, n - 1, f - 1)})
Listings(sub, lens, n, f) ==
    {<<>>} \cup UNION {UNION {UNION {
        {<<e>> \o r : r \in {x \in Listings(sub, lens, n - k, f - g) :
                                e.name \notin ListedNames(x)}}
          : e \in Entries(sub, sub, lens, k, g)} : g \in 0..f} : k \in 1..n}

\* The filesystems the scanner is run on, faults included.
ScanInputs == Entries({RootName}, Names, 1..MaxLen, ScanNodes + 1, MaxFaults)
\* The filesystems the interactive loop is run on: two names, one file length,
\* and no failing operation (the loop never reads the filesystem again).
LoopNames == {NameAB, NameB}
LoopInputs == Entries({RootName}, LoopNames, {MaxLen}, TreeNodes + 1, 0)

\* ------------------------------------------------------------------- Node
Node(path, size, kind, children, expanded) ==
    [path |-> path, size |-> size, kind |-> kind, children |-> children,
     expanded |-> expanded]
NoTree == Node(<<>>, 0, "None", <<>>, FALSE)

is_dir(node) == node.kind = "Directory"
is_expanded(node) == node.kind = "Directory" /\ node.expanded
children(node) == node.children
toggle(node) ==
    IF node.kind = "Directory" THEN [node EXCEPT !.expanded = ~@] ELSE node

\* ---------------------------------------------------------------- scanner
\* Ord for byte strings and for paths (component by component).
RECURSIVE NameCmpFrom(_, _, _)
NameCmpFrom(a, b, i) ==
    IF i > Len(a) /\ i > Len(b) THEN "Equal"
    ELSE IF i > Len(a) THEN "Less"
    ELSE IF i > Len(b) THEN "Greater"
    ELSE IF a[i] < b[i] THEN "Less"
    ELSE IF a[i] > b[i] THEN "Greater"
    ELSE NameCmpFrom(a, b, i + 1)
NameCmp(a, b) == NameCmpFrom(a, b, 1)

RECURSIVE PathCmpFrom(_, _, _)
PathCmpFrom(p, q, i) ==
    IF i > Len(p) /\ i > Len(q) THEN "Equal"
    ELSE IF i > Len(p) THEN "Less"
    ELSE IF i > Len(q) THEN "Greater"
    ELSE IF NameCmp(p[i], q[i]) # "Equal" THEN NameCmp(p[i], q[i])
    ELSE PathCmpFrom(p, q, i + 1)
PathCmp(p, q) == PathCmpFrom(p, q, 1)

\* Mutant of ChildCmp: the kinds are not looked at.
ChildCmpByPath(a, b) == PathCmp(a.path, b.path)

\* The comparator of children.sort_by.
ChildCmp(a, b) ==
    IF a.kind = "Directory" /\ b.kind = "File" THEN "Less"
    ELSE IF a.kind = "File" /\ b.kind = "Directory" THEN "Greater"
    ELSE PathCmp(a.path, b.path)

\* sort_by is a stable sort: x goes behind every element not greater than it.
RECURSIVE InsertSorted(_, _)
InsertSorted(s, x) ==
    IF s = <<>> THEN <<x>>
    ELSE IF ChildCmp(s[Len(s)], x) = "Greater"
         THEN Append(InsertSorted(SubSeq(s, 1, Len(s) - 1), x), s[Len(s)])
         ELSE Append(s, x)
RECURSIVE SortChildren(_)
SortChildren(s) ==
    IF s = <<>> THEN <<>>
    ELSE InsertSorted(SortChildren(SubSeq(s, 1, Len(s) - 1)), s[Len(s)])

RECURSIVE SumSizes(_)
SumSizes(s) == IF s = <<>> THEN 0 ELSE s[1].size + SumSizes(Tail(s))

\* Mutant of total_size: only the files directly in the directory are summed.
RECURSIVE total_size_direct_files(_)
total_size_direct_files(sorted) ==
    IF sorted = <<>> THEN 0
    ELSE (IF sorted[1].kind = "File" THEN sorted[1].size ELSE 0)
         + total_size_direct_files(Tail(sorted))

\* let total_size: u64 = children.iter().map(|c| c.size).sum();
total_size(sorted) == SumSizes(sorted)

ScanErr(count) == [ok |-> FALSE, node |-> NoTree, count |-> count]
ScanOk(node, count) == [ok |-> TRUE, node |-> node, count |-> count]

\* Mutant of MatchChild: the entry's error is returned (a `?` on the call).
MatchChildPropagates(acc, child) ==
    IF child.ok
    THEN [children |-> Append(acc.children, child.node),
          count |-> acc.count + child.count + 1, next |-> "continue"]
    ELSE [children |-> acc.children, count |-> acc.count + child.count,
          next |-> "return"]

\* The match on one entry's scan inside the for loop.  acc holds the children
\* pushed and the count so far; next says whether the loop goes on
\* ("continue") or the function returns the error ("return").
MatchChild(acc, child) ==
    IF child.ok
    THEN [children |-> Append(acc.children, child.node),
          count |-> acc.count + child.count + 1, next |-> "continue"]
    ELSE \* Err(e): reported when depth <= 1, and skipped
         [children |-> acc.children, count |-> acc.count + child.count,
          next |-> "continue"]

\* Mutant of EndOfListing: an Err item of the iterator is dropped.
EndOfListingIgnoresErr(e, acc) == acc

\* The ReadDir iterator has no entry left: it ends with None, or with an Err
\* item, which `let entry = entry?;` returns.
EndOfListing(e, acc) ==
    IF e.ends = "err" THEN [acc EXCEPT !.next = "return"] ELSE acc

\* scan_with_progress(path, depth, total_count) on the entry e found at path.
\* count is what the call adds to total_count (kept when the call fails).
RECURSIVE scan_with_progress(_, _, _)
RECURSIVE ScanEntries(_, _, _, _, _)
\* The for loop over read_dir(&path), from the listing's entry i on.
ScanEntries(e, path, depth, i, acc) ==
    IF acc.next = "return" THEN acc
    ELSE IF i > Len(e.listing) THEN EndOfListing(e, acc)
    ELSE ScanEntries(e, path, depth, i + 1,
            MatchChild(acc, scan_with_progress(e.listing[i],
                              Append(path, e.listing[i].name), depth + 1)))
scan_with_progress(e, path, depth) ==
    IF e.meta = "err" THEN ScanErr(0)
    ELSE IF e.meta = "dir"
    THEN IF ~e.open THEN ScanErr(0)
         ELSE LET r == ScanEntries(e, path, depth, 1,
                          [children |-> <<>>, count |-> 0, next |-> "continue"])
                  sorted == SortChildren(r.children)
              IN  IF r.next = "return" THEN ScanErr(r.count)
                  ELSE ScanOk(Node(path, total_size(sorted), "Directory", sorted, FALSE),
                              r.count)
    ELSE ScanOk(Node(path, e.len, "File", <<>>, FALSE), 0)

\* Node::scan(path): the counter is reset, then the recursive scan runs.
scan(e) == scan_with_progress(e, <<e.name>>, 0)

\* ------------------------------------------------------------------- view
\* Option<usize>: None is <<>>, Some(i) is <<i>>.
None == <<>>
Some(i) == <<i>>

\* A &Node into the tree is modelled by the node's address: the child
\* positions from the root down to it (the root is <<>>).
ViewItem(index, node, depth) == [index |-> index, node |-> node, depth |-> depth]

RECURSIVE NodeAt(_, _)
NodeAt(node, addr) ==
    IF addr = <<>> THEN node ELSE NodeAt(node.children[Head(addr)], Tail(addr))

\* Mutant of ItemIndex: the counter also counts files.
ItemIndexCountsFiles(node, counter) ==
    IF is_dir(node) THEN [index |-> Some(counter), counter |-> counter + 1]
    ELSE [index |-> None, counter |-> counter + 1]

\* let index = if node.is_dir() { ... Some(idx) } else { None }; with *counter
\* as the statement leaves it.
ItemIndex(node, counter) ==
    IF is_dir(node) THEN [index |-> Some(counter), counter |-> counter + 1]
    ELSE [index |-> None, counter |-> counter]

\* Mutant of ScanDescends: the test of the flag is inverted.
ScanDescendsInverted(node) == is_dir(node) /\ ~is_expanded(node)

\* Mutant of ScanDescends: a collapsed directory is descended into.
ScanDescendsAlways(node) == is_dir(node)

\* if node.is_dir() && node.is_expanded()
ScanDescends(node) == is_dir(node) /\ is_expanded(node)

\* scan_recursive(node, depth, counter, out); st holds *counter and *out.
RECURSIVE scan_recursive(_, _, _, _)
RECURSIVE ScanChildren(_, _, _, _, _)
ScanChildren(node, addr, depth, i, st) ==
    IF i > Len(children(node)) THEN st
    ELSE ScanChildren(node, addr, depth, i + 1,
            scan_recursive(children(node)[i], Append(addr, i), depth + 1, st))
scan_recursive(node, addr, depth, st) ==
    LET ix == ItemIndex(node, st.counter)
        pushed == [counter |-> ix.counter,
                   out |-> Append(st.out, ViewItem(ix.index, addr, depth))]
    IN  IF ScanDescends(node)
        THEN ScanChildren(node, addr, depth, 1, pushed)
        ELSE pushed

build_visible_list(r) == scan_recursive(r, <<>>, 0, [counter |-> 0, out |-> <<>>]).out

\* Mutant of ToggleMatches: the counter is compared after its increment.
ToggleMatchesOffByOne(counter, target) == counter + 1 = target

\* if *counter == target
ToggleMatches(counter, target) == counter = target

\* Mutants of Matched: the flag is left alone; the flag is set, not flipped.
MatchedNoFlip(node, counter) == [found |-> TRUE, node |-> node, counter |-> counter]
MatchedExpandOnly(node, counter) ==
    [found |-> TRUE, node |-> [node EXCEPT !.expanded = TRUE], counter |-> counter]

\* Mutant of Matched: a directory that is collapsed releases its children.
MatchedReleasesChildren(node, counter) ==
    [found |-> TRUE,
     node |-> IF is_expanded(node)
              THEN [toggle(node) EXCEPT !.children = <<>>, !.size = 0]
              ELSE toggle(node),
     counter |-> counter]

\* node.toggle(); return true;
Matched(node, counter) == [found |-> TRUE, node |-> toggle(node), counter |-> counter]

\* Mutant of ToggleDescends: a collapsed directory is descended into.
ToggleDescendsAlways(node) == TRUE

\* if node.is_expanded()
ToggleDescends(node) == is_expanded(node)

\* find_and_toggle(node, counter, target): the value returned, the node as the
\* call leaves it and *counter as the call leaves it.
RECURSIVE find_and_toggle(_, _, _)
RECURSIVE ToggleChildren(_, _, _, _)
\* The for loop over children_mut(), from child i on.
ToggleChildren(node, i, counter, target) ==
    IF i > Len(children(node))
    THEN [found |-> FALSE, node |-> node, counter |-> counter]
    ELSE LET r == find_and_toggle(children(node)[i], counter, target)
         IN  IF r.found
             THEN [found |-> TRUE,
                   node |-> [node EXCEPT !.children[i] = r.node],
                   counter |-> r.counter]
             ELSE ToggleChildren([node EXCEPT !.children[i] = r.node],
                                 i + 1, r.counter, target)
\* Mutant of find_and_toggle: the kind of the node is not asked for.
find_and_toggle_any_kind(node, counter, target) ==
    IF ToggleMatches(counter, target)
    THEN Matched(node, counter)
    ELSE IF ToggleDescends(node)
         THEN ToggleChildren(node, 1, counter + 1, target)
         ELSE [found |-> FALSE, node |-> node, counter |-> counter + 1]

find_and_toggle(node, counter, target) ==
    IF is_dir(node)
    THEN IF ToggleMatches(counter, target)
         THEN Matched(node, counter)
         ELSE IF ToggleDescends(node)
              THEN ToggleChildren(node, 1, counter + 1, target)
              ELSE [found |-> FALSE, node |-> node, counter |-> counter + 1]
    ELSE [found |-> FALSE, node |-> node, counter |-> counter]

\* Mutant of toggle_by_index: the counter starts at one.
toggle_by_index_from_one(r, target_index) == find_and_toggle(r, 1, target_index)

toggle_by_index(r, target_index) == find_and_toggle(r, 0, target_index)

\* ------------------------------------------------------------ the program
\* The ordinals a user may type: one more than any tree here has directories.
MaxIndex == TreeNodes + 1

\* A line is a sequence of characters.
Digits == <<"0", "1", "2", "3", "4", "5", "6", "7", "8", "9">>
is_digit(c) == \E d \in 1..Len(Digits) : Digits[d] = c
to_digit(c) == (CHOOSE d \in 1..Len(Digits) : Digits[d] = c) - 1
is_whitespace(c) == c \in {" ", "\n", "\t", "\r"}

\* str::trim
RECURSIVE trim_start(_)
trim_start(s) ==
    IF s # <<>> /\ is_whitespace(Head(s)) THEN trim_start(Tail(s)) ELSE s
RECURSIVE trim_end(_)
trim_end(s) ==
    IF s # <<>> /\ is_whitespace(s[Len(s)])
    THEN trim_end(SubSeq(s, 1, Len(s) - 1)) ELSE s
\* Mutant of trim: the line is compared as it was read.
trim_nothing(s) == s

trim(s) == trim_end(trim_start(s))

\* str::parse::<usize>: an optional "+", then one digit or more and nothing
\* else.  (The lines read here are short: no value overflows usize.)
RECURSIVE parse_digits(_, _)
parse_digits(s, acc) ==
    IF s = <<>> THEN [ok |-> TRUE, val |-> acc]
    ELSE IF ~is_digit(Head(s)) THEN [ok |-> FALSE, val |-> 0]
    ELSE parse_digits(Tail(s), acc * 10 + to_digit(Head(s)))
parse_usize(s) ==
    LET digits == IF s # <<>> /\ Head(s) = "+" THEN Tail(s) ELSE s
    IN  IF digits = <<>> THEN [ok |-> FALSE, val |-> 0]
        ELSE parse_digits(digits, 0)

\* The lines read_line may give: an ordinal typed plainly, or with blanks, a
\* sign and a leading zero; "q" typed plainly or with blanks; others ("" is
\* the end of the input).
IndexLines ==
    {<<Digits[i + 1], "\n">> : i \in 0..MaxIndex}
    \cup {<<" ", "+", "0", "2", " ", "\n">>}
QuitLines == {<<"q", "\n">>, <<" ", "q", " ", "\n">>}
OtherLines == {<<>>, <<"Q", "\n">>, <<"-", "1", "\n">>, <<"1", "x", "\n">>}
Lines == IndexLines \cup QuitLines \cup OtherLines

NoCall == [op |-> "none", k |-> 0, ret |-> FALSE, before |-> NoTree, shown |-> <<>>]
\* `input` before read_line has filled it.
NoInput == [read |-> FALSE, line |-> <<>>]
NoPrior == [again |-> FALSE, tree |-> NoTree, items |-> <<>>]

VARIABLES
    fs,           \* the filesystem the program is started on
    pc,           \* where main is: start, scanned, render, input, done, failed
    root,         \* the tree (NoTree before the scan and when it failed)
    total_count,  \* TOTAL_COUNT
    items,        \* the visible list of the last render
    last,         \* the last toggle_by_index call: its index, its result, the
                  \* tree before it and the visible list rendered before it
    twice,        \* the tree before the first of two calls in a row with the
                  \* same index (NoTree otherwise)
    input,        \* the line read in this iteration of the loop
    printed,      \* what this iteration printed after the line: "", "invalid"
    rendered,     \* the tree the last build_visible_list call was given
    prior         \* when no toggle_by_index call lies between the last two
                  \* build_visible_list calls: the tree and the result of the
                  \* first of them

vars == <<fs, pc, root, total_count, items, last, twice, input, printed, rendered, prior>>

Init ==
    /\ fs \in LoopInputs
    /\ pc = "start"
    /\ root = NoTree
    /\ total_count = 0
    /\ items = <<>>
    /\ last = NoCall
    /\ twice = NoTree
    /\ input = NoInput
    /\ printed = ""
    /\ rendered = NoTree
    /\ prior = NoPrior

\* let mut root = Node::scan(root_path)?;
Scan ==
    /\ pc = "start"
    /\ LET r == scan(fs)
       IN  /\ total_count' = r.count
           /\ IF r.ok
              THEN root' = r.node /\ pc' = "scanned"
              ELSE root' = NoTree /\ pc' = "failed"
    /\ UNCHANGED <<fs, items, last, twice, input, printed, rendered, prior>>

\* Mutant of ToggleRoot: the root is left as the scanner made it.
ToggleRootSkipped ==
    /\ pc = "scanned"
    /\ pc' = "render"
    /\ UNCHANGED <<fs, root, total_count, items, last, twice, input, printed,
                   rendered, prior>>

\* root.toggle();
ToggleRoot ==
    /\ pc = "scanned"
    /\ root' = toggle(root)
    /\ pc' = "render"
    /\ UNCHANGED <<fs, total_count, items, last, twice, input, printed, rendered, prior>>

\* Whether the iteration that ends made a toggle_by_index call.
CalledToggle == input.read /\ parse_usize(trim(input.line)).ok

\* Mutant of Render: the rows of the last render are kept in the list.
RenderKeepsRows ==
    /\ pc = "render"
    /\ items' = items \o build_visible_list(root)
    /\ rendered' = root
    /\ prior' = IF rendered # NoTree /\ ~CalledToggle
                THEN [again |-> TRUE, tree |-> rendered, items |-> items]
                ELSE NoPrior
    /\ input' = NoInput
    /\ printed' = ""
    /\ pc' = "input"
    /\ UNCHANGED <<fs, root, total_count, last, twice>>

\* let items = view::build_visible_list(&root); the rows are printed; the
\* iteration's `input` is a new String.
Render ==
    /\ pc = "render"
    /\ items' = build_visible_list(root)
    /\ rendered' = root
    /\ prior' = IF rendered # NoTree /\ ~CalledToggle
                THEN [again |-> TRUE, tree |-> rendered, items |-> items]
                ELSE NoPrior
    /\ input' = NoInput
    /\ printed' = ""
    /\ pc' = "input"
    /\ UNCHANGED <<fs, root, total_count, last, twice>>

\* if input == "q" { break; }
InputQuit(line) ==
    /\ pc = "input"
    /\ trim(line) = <<"q">>
    /\ input' = [read |-> TRUE, line |-> line]
    /\ pc' = "done"
    /\ UNCHANGED <<fs, root, total_count, items, last, twice, printed, rendered, prior>>

\* if let Ok(idx) = input.parse::<usize>() { if !toggle_by_index(..) { println!(..) } }
InputIndex(line) ==
    /\ pc = "input"
    /\ trim(line) # <<"q">>
    /\ parse_usize(trim(line)).ok
    /\ LET idx == parse_usize(trim(line)).val
           r == toggle_by_index(root, idx)
       IN  /\ root' = r.node
           /\ printed' = IF r.found THEN "" ELSE "invalid"
           /\ last' = [op |-> "toggle", k |-> idx, ret |-> r.found, before |-> root,
                      shown |-> items]
           /\ twice' = IF last.op = "toggle" /\ last.k = idx
                       THEN last.before ELSE NoTree
    /\ input' = [read |-> TRUE, line |-> line]
    /\ pc' = "render"
    /\ UNCHANGED <<fs, total_count, items, rendered, prior>>

\* The line read is neither "q" nor a usize.
InputOther(line) ==
    /\ pc = "input"
    /\ trim(line) # <<"q">>
    /\ ~parse_usize(trim(line)).ok
    /\ input' = [read |-> TRUE, line |-> line]
    /\ pc' = "render"
    /\ UNCHANGED <<fs, root, total_count, items, last, twice, printed, rendered, prior>>

\* io::stdout().flush()? fails: main returns the error.
FlushError ==
    /\ pc = "input"
    /\ pc' = "failed"
    /\ UNCHANGED <<fs, root, total_count, items, last, twice, input, printed,
                   rendered, prior>>

\* io::stdin().read_line(&mut input)? fails: main returns the error.
InputError ==
    /\ pc = "input"
    /\ pc' = "failed"
    /\ UNCHANGED <<fs, root, total_count, items, last, twice, input, printed,
                   rendered, prior>>

Next ==
    \/ Scan
    \/ ToggleRoot
    \/ Render
    \/ \E line \in Lines : InputQuit(line)
    \/ \E line \in Lines : InputIndex(line)
    \/ \E line \in Lines : InputOther(line)
    \/ FlushError
    \/ InputError

Spec == Init /\ [][Next]_vars

\* The scanner alone, on filesystems with failing entries.
InitScan ==
    /\ fs \in ScanInputs
    /\ pc = "start"
    /\ root = NoTree
    /\ total_count = 0
    /\ items = <<>>
    /\ last = NoCall
    /\ twice = NoTree
    /\ input = NoInput
    /\ printed = ""
    /\ rendered = NoTree
    /\ prior = NoPrior

SpecScan == InitScan /\ [][Scan]_vars

\* The loop on one filesystem: the root holds the empty directory "a", the
\* directory "b" with the file "f" of 2048 bytes, and the file "c" of 10
\* bytes; read_dir lists the root in any order.
NameC == <<3>>
NameF == <<6>>
ScenarioEntries ==
    {DirEntry(NameA, TRUE, <<>>, "eof"),
     DirEntry(NameB, TRUE, <<FileEntry(NameF, 2048)>>, "eof"),
     FileEntry(NameC, 10)}
ScenarioInputs ==
    {DirEntry(RootName, TRUE, l, "eof") :
        l \in {x \in [1..3 -> ScenarioEntries] :
                  \A i, j \in 1..3 : i # j => x[i] # x[j]}}

InitScenario ==
    /\ fs \in ScenarioInputs
    /\ pc = "start"
    /\ root = NoTree
    /\ total_count = 0
    /\ items = <<>>
    /\ last = NoCall
    /\ twice = NoTree
    /\ input = NoInput
    /\ printed = ""
    /\ rendered = NoTree
    /\ prior = NoPrior

SpecScenario == InitScenario /\ [][Next]_vars

\* ================================================================= claims
\* What the claims speak of, stated over the tree and not by the walks.
RECURSIVE Addrs(_)
Addrs(node) ==
    {<<>>} \cup UNION {{<<i>> \o a : a \in Addrs(node.children[i])} :
                         i \in 1..Len(node.children)}
DirAddrs(tree) == {a \in Addrs(tree) : NodeAt(tree, a).kind = "Directory"}
ProperPrefix(p, a) == Len(p) < Len(a) /\ SubSeq(a, 1, Len(p)) = p
\* Every proper ancestor is an expanded directory.
Visible(tree, a) ==
    \A n \in 0..(Len(a) - 1) :
        LET anc == NodeAt(tree, SubSeq(a, 1, n))
        IN  anc.kind = "Directory" /\ anc.expanded
VisibleAddrs(tree) == {a \in Addrs(tree) : Visible(tree, a)}
VisibleDirs(tree) == VisibleAddrs(tree) \cap DirAddrs(tree)
RECURSIVE FlipAt(_, _)
FlipAt(tree, a) ==
    IF a = <<>> THEN [tree EXCEPT !.expanded = ~@]
    ELSE [tree EXCEPT !.children[Head(a)] = FlipAt(@, Tail(a))]
RECURSIVE Collapsed(_)
Collapsed(tree) ==
    [tree EXCEPT !.expanded = FALSE,
                 !.children = [i \in 1..Len(tree.children) |-> Collapsed(tree.children[i])]]
\* The directories whose flag differs between two trees of one shape.
FlagsChanged(t1, t2) ==
    {a \in DirAddrs(t1) : NodeAt(t1, a).expanded # NodeAt(t2, a).expanded}
\* Depth-first pre-order on addresses: an ancestor first, then by child position.
PreorderBefore(a, b) ==
    \/ ProperPrefix(a, b)
    \/ \E i \in 1..Len(a) :
          /\ i <= Len(b)
          /\ SubSeq(a, 1, i - 1) = SubSeq(b, 1, i - 1)
          /\ a[i] < b[i]
Toggled == last.op = "toggle"

\* C1: an ordinal that the visible list rendered before a toggle_by_index call
\* gives to a directory makes that call flip the flag of exactly that directory.
C1_OrdinalIdentifiesNode ==
    Toggled =>
        \A i \in 1..Len(last.shown) :
            last.shown[i].index = Some(last.k) =>
                /\ last.ret
                /\ NodeAt(last.before, last.shown[i].node).kind = "Directory"
                /\ root = FlipAt(last.before, last.shown[i].node)
\* A nested directory was toggled by an ordinal that a collapsed directory with
\* directories inside precedes.
C1_Witness ==
    /\ Toggled
    /\ \E i \in 1..Len(last.shown) :
          /\ last.shown[i].index = Some(last.k)
          /\ Len(last.shown[i].node) >= 1
          /\ \E j \in 1..(i - 1) :
                LET n == NodeAt(last.before, last.shown[j].node)
                IN  /\ n.kind = "Directory" /\ ~n.expanded
                    /\ \E c \in 1..Len(n.children) : n.children[c].kind = "Directory"

\* C2: toggle_by_index returns true exactly when the index is smaller than the
\* number of visible directories (the visible list holds that ordinal), and a
\* call that returns false changes no flag.
C2_TrueIffVisibleOrdinal ==
    Toggled =>
        /\ last.ret <=> last.k < Cardinality(VisibleDirs(last.before))
        /\ last.ret <=> \E i \in 1..Len(last.shown) : last.shown[i].index = Some(last.k)
        /\ ~last.ret => root = last.before
\* A stale ordinal: the tree has more than k directories, but fewer are visible.
C2_Witness ==
    /\ Toggled
    /\ ~last.ret
    /\ last.k >= 1
    /\ last.k < Cardinality(DirAddrs(last.before))

\* C3: a call that returns true changes the flag of exactly one directory and
\* nothing else of the tree; the flags of the directories below it stay.
C3_FlipsExactlyOne ==
    (Toggled /\ last.ret) =>
        /\ Collapsed(root) = Collapsed(last.before)
        /\ Cardinality(FlagsChanged(last.before, root)) = 1
        /\ \A a \in FlagsChanged(last.before, root) :
              \A d \in DirAddrs(root) :
                  ProperPrefix(a, d) =>
                      NodeAt(root, d).expanded = NodeAt(last.before, d).expanded
\* A directory was collapsed and re-expanded while a directory in it was expanded.
C3_Witness ==
    /\ Toggled /\ last.ret
    /\ twice # NoTree
    /\ \E a \in FlagsChanged(last.before, root) :
          /\ NodeAt(root, a).expanded
          /\ \E d \in DirAddrs(root) : ProperPrefix(a, d) /\ NodeAt(root, d).expanded

\* C4: two toggle_by_index calls in a row with the same index leave the tree,
\* and so the visible list, as it was before the first.
C4_RoundTrip ==
    twice # NoTree =>
        /\ root = twice
        /\ build_visible_list(root) = build_visible_list(twice)
\* Both calls found the directory; the first changed the visible list.
C4_Witness ==
    /\ twice # NoTree
    /\ last.ret
    /\ Len(build_visible_list(last.before)) # Len(build_visible_list(root))

\* C7: the visible list is the nodes all of whose proper ancestors are expanded
\* directories, each once, in depth-first pre-order of the child order, the
\* root first at depth 0 and every other item one deeper than its parent.
C7_VisiblePreorder ==
    pc = "input" =>
        /\ Len(items) = Cardinality(VisibleAddrs(root))
        /\ {items[i].node : i \in 1..Len(items)} = VisibleAddrs(root)
        /\ \A i, j \in 1..Len(items) :
              i < j => PreorderBefore(items[i].node, items[j].node)
        /\ items[1].node = <<>> /\ items[1].depth = 0
        /\ \A i \in 2..Len(items) :
              \E j \in 1..(i - 1) :
                  /\ items[j].node = SubSeq(items[i].node, 1, Len(items[i].node) - 1)
                  /\ items[i].depth = items[j].depth + 1
        /\ \A i, j \in 1..Len(items) :
              (/\ NodeAt(root, items[i].node).kind = "Directory"
               /\ ~NodeAt(root, items[i].node).expanded)
                  => ~ProperPrefix(items[i].node, items[j].node)
\* The list holds a collapsed directory that has children, and an item at depth 2.
C7_Witness ==
    /\ pc = "input"
    /\ \E i \in 1..Len(items) :
          LET n == NodeAt(root, items[i].node)
          IN  n.kind = "Directory" /\ ~n.expanded /\ n.children # <<>>
    /\ \E i \in 1..Len(items) : items[i].depth = 2

\* C8: in the visible list the i-th directory carries ordinal i - 1 and a file
\* carries none.
C8_DenseOrdinals ==
    pc = "input" =>
        \A i \in 1..Len(items) :
            LET dirsBefore ==
                    {j \in 1..(i - 1) : NodeAt(root, items[j].node).kind = "Directory"}
            IN  IF NodeAt(root, items[i].node).kind = "Directory"
                THEN items[i].index = Some(Cardinality(dirsBefore))
                ELSE items[i].index = None
\* A file stands before a directory in the list.
C8_Witness ==
    /\ pc = "input"
    /\ \E i, j \in 1..Len(items) :
          /\ i < j
          /\ NodeAt(root, items[i].node).kind = "File"
          /\ NodeAt(root, items[j].node).kind = "Directory"

\* ---------------------------------------------------- claims on the scanner
\* The entry of filesystem e that a path of the tree names (path[1] is e's name).
RECURSIVE EntryAt(_, _)
EntryAt(e, path) ==
    IF Len(path) <= 1 THEN e
    ELSE EntryAt(CHOOSE l \in {e.listing[i] : i \in 1..Len(e.listing)} : l.name = path[2],
                 Tail(path))
RECURSIVE SizeOfFirst(_, _)
SizeOfFirst(nodes, n) == IF n = 0 THEN 0 ELSE nodes[n].size + SizeOfFirst(nodes, n - 1)
\* An entry scans: it can be stat'ed and, a directory, opened and listed to its end.
Scannable(e) == e.meta = "file" \/ (e.meta = "dir" /\ e.open /\ e.ends = "eof")
\* Lexicographic order of sequences, given the order of their elements.
LexLess(a, b, Lt(_, _)) ==
    \E i \in 1..Len(b) :
        /\ \A j \in 1..(i - 1) : j <= Len(a) /\ a[j] = b[j]
        /\ i = Len(a) + 1 \/ (i <= Len(a) /\ Lt(a[i], b[i]))
ByteLess(x, y) == x < y
NameLess(a, b) == LexLess(a, b, ByteLess)
PathLess(p, q) == LexLess(p, q, NameLess)

\* The bytes of the files that a scan of e reaches through entries that scan.
RECURSIVE ScannedBytes(_)
RECURSIVE ScannedBytesOfFirst(_, _)
ScannedBytesOfFirst(l, n) ==
    IF n = 0 THEN 0
    ELSE (IF Scannable(l[n]) THEN ScannedBytes(l[n]) ELSE 0) + ScannedBytesOfFirst(l, n - 1)
ScannedBytes(e) ==
    IF e.meta = "file" THEN e.len ELSE ScannedBytesOfFirst(e.listing, Len(e.listing))

\* C5: in the scanned tree a directory's size is the sum of its children's
\* sizes (0 without children) and a file's size is the length the filesystem
\* reports for it; the entries that failed to scan add nothing to the root's size.
C5_SizeIsSumOfChildren ==
    pc = "scanned" =>
        /\ \A a \in Addrs(root) :
            LET n == NodeAt(root, a)
            IN  IF n.kind = "Directory"
                THEN n.size = SizeOfFirst(n.children, Len(n.children))
                ELSE n.size = EntryAt(fs, n.path).len
        /\ root.size = ScannedBytes(fs)
\* A directory in the root holds a file, and the sizes add up through it.
C5_Witness ==
    /\ pc = "scanned"
    /\ \E i \in 1..Len(root.children) :
          /\ root.children[i].kind = "Directory"
          /\ root.children[i].children # <<>>
          /\ root.children[i].size > 0
          /\ root.size = root.children[i].size

\* C6: in every directory of the tree the directories stand before the files
\* and each kind is in ascending order of path, after any toggles too.
C6_ChildrenSorted ==
    \A a \in DirAddrs(root) :
        LET c == NodeAt(root, a).children
        IN  \A i, j \in 1..Len(c) :
                i < j =>
                    /\ c[i].kind = "File" => c[j].kind = "File"
                    /\ c[i].kind = c[j].kind => PathLess(c[i].path, c[j].path)
\* The root lists the file "ab" before the directory "b"; the scan has put the
\* directory first, and a toggle has been made since.
C6_Witness ==
    /\ Toggled /\ last.ret
    /\ Len(fs.listing) = 2
    /\ fs.listing[1].meta = "file" /\ fs.listing[1].name = NameAB
    /\ fs.listing[2].meta = "dir" /\ fs.listing[2].name = NameB
    /\ Len(root.children) = 2
    /\ root.children[1].kind = "Directory"

\* C9: the scan of a directory that can be read completes, and its tree holds,
\* for every directory in it, exactly the entries of its listing that scan,
\* whatever the other entries of the listing do.
RECURSIVE HoldsScannable(_, _)
HoldsScannable(node, e) ==
    /\ node.path[Len(node.path)] = e.name
    /\ node.kind = (IF e.meta = "dir" THEN "Directory" ELSE "File")
    /\ e.meta = "dir" =>
          LET good == {i \in 1..Len(e.listing) : Scannable(e.listing[i])}
          IN  /\ Len(node.children) = Cardinality(good)
              /\ \A i \in good :
                    \E c \in 1..Len(node.children) :
                        /\ node.children[c].path = Append(node.path, e.listing[i].name)
                        /\ HoldsScannable(node.children[c], e.listing[i])
C9_FailedEntrySkipped ==
    (pc # "start" /\ Scannable(fs)) => (pc = "scanned" /\ HoldsScannable(root, fs))
\* An entry of the root fails and another entry of the root is in the tree.
C9_Witness ==
    /\ pc = "scanned"
    /\ Len(fs.listing) = 2
    /\ ~Scannable(fs.listing[1])
    /\ Len(root.children) = 1

\* C10: Node::scan fails, and gives no tree, exactly when the root cannot be
\* stat'ed or read; no failure below the root makes it fail.
C10_FailsIffRootUnreadable ==
    pc # "start" =>
        /\ pc = "failed" <=> ~Scannable(fs)
        /\ pc = "failed" => root = NoTree
        /\ pc = "scanned" => root.kind # "None"
\* The scan returned a tree although a directory below the root cannot be listed.
C10_Witness ==
    /\ pc = "scanned"
    /\ \E i \in 1..Len(fs.listing) : fs.listing[i].meta = "dir" /\ ~Scannable(fs.listing[i])

\* C11: whatever toggle_by_index calls were made, successful or not, the tree
\* has the shape, the paths, the sizes and the child order of the tree the
\* scanner produced: the two differ in expanded flags only.
C11_StructurePreserved ==
    (pc \notin {"start", "scanned"} /\ root # NoTree) =>
        Collapsed(root) = Collapsed(scan(fs).node)
\* Calls that succeeded and a call that failed were made on a tree with a
\* directory of several children, and flags differ from the scanner's.
C11_Witness ==
    /\ Toggled /\ ~last.ret
    /\ last.before # scan(fs).node
    /\ root.kind = "Directory" /\ Len(root.children) >= 2
    /\ \E a \in DirAddrs(root) : Len(a) >= 1 /\ NodeAt(root, a).expanded
    /\ root.size > 0

\* C12: when every directory other than possibly the root is collapsed,
\* build_visible_list returns one item if the root is collapsed (or a file) and
\* one item more than the root has direct children if the root is expanded.
C12_CollapsedBelowRoot ==
    (pc = "input" /\ \A a \in DirAddrs(root) : a # <<>> => ~NodeAt(root, a).expanded) =>
        Len(items) = IF root.kind = "Directory" /\ root.expanded
                     THEN 1 + Len(root.children)
                     ELSE 1
\* An expanded root with a file and a collapsed directory that has children,
\* rendered after toggle_by_index calls.
C12_Witness ==
    /\ pc = "input" /\ Toggled
    /\ root.kind = "Directory" /\ root.expanded
    /\ \A a \in DirAddrs(root) : a # <<>> => ~NodeAt(root, a).expanded
    /\ \E i \in 1..Len(root.children) : root.children[i].kind = "File"
    /\ \E i \in 1..Len(root.children) : Len(root.children[i].children) >= 1
    /\ Len(items) = 1 + Len(root.children)

C14_Scenario ==
    LET a == <<1>>
        b == <<2>>
        c == <<3>>
        f == <<2, 1>>
        RootOnly(t) == t.expanded /\ ~NodeAt(t, a).expanded /\ ~NodeAt(t, b).expanded
    IN  /\ root # NoTree =>
              /\ root.size = 2058
              /\ NodeAt(root, a).path = <<RootName, NameA>>
              /\ NodeAt(root, b).path = <<RootName, NameB>>
              /\ NodeAt(root, c).path = <<RootName, NameC>>
              /\ NodeAt(root, f).path = <<RootName, NameB, NameF>>
              /\ Len(root.children) = 3 /\ NodeAt(root, a).children = <<>>
              /\ Len(NodeAt(root, b).children) = 1
        /\ (pc = "input" /\ RootOnly(root)) =>
              items = <<ViewItem(Some(0), <<>>, 0), ViewItem(Some(1), a, 1),
                        ViewItem(Some(2), b, 1), ViewItem(None, c, 1)>>
        /\ (Toggled /\ last.k = 2 /\ RootOnly(last.before)) =>
              /\ last.ret
              /\ root = FlipAt(last.before, b)
              /\ NodeAt(root, b).expanded
              /\ pc = "input" =>
                    items = <<ViewItem(Some(0), <<>>, 0), ViewItem(Some(1), a, 1),
                              ViewItem(Some(2), b, 1), ViewItem(None, f, 2),
                              ViewItem(None, c, 1)>>
\* The list of five rows is rendered after toggle_by_index(root, 2) on the
\* tree with only the root expanded.
C14_Witness ==
    /\ pc = "input" /\ Toggled /\ last.k = 2 /\ last.ret
    /\ last.before.expanded
    /\ ~last.before.children[1].expanded /\ ~last.before.children[2].expanded
    /\ Len(last.shown) = 4 /\ Len(items) = 5

\* C15: a failure to read an input line is recoverable: the loop goes on to
\* its next render and the session does not end, and no expanded flag changes.
C15_ReadFailureRecoverable ==
    [][InputError => (pc' = "render" /\ root' = root)]_vars

\* What a line says, read off the line itself: its text without the blanks
\* around it, whether that text is an unsigned decimal numeral, and its value.
Blank(c) == c \in {" ", "\t", "\r", "\n"}
Core(line) ==
    LET inked == {i \in 1..Len(line) : ~Blank(line[i])}
    IN  IF inked = {} THEN <<>>
        ELSE SubSeq(line, CHOOSE i \in inked : \A j \in inked : i <= j,
                          CHOOSE i \in inked : \A j \in inked : i >= j)
Numeral(s) == IF s # <<>> /\ s[1] = "+" THEN Tail(s) ELSE s
IsUnsigned(s) ==
    /\ Numeral(s) # <<>>
    /\ \A i \in 1..Len(Numeral(s)) : \E d \in 1..10 : Digits[d] = Numeral(s)[i]
RECURSIVE DecimalValue(_)
DecimalValue(d) ==
    IF d = <<>> THEN 0
    ELSE 10 * DecimalValue(SubSeq(d, 1, Len(d) - 1))
         + ((CHOOSE k \in 1..10 : Digits[k] = d[Len(d)]) - 1)

\* C16: of the lines read, only "q" ends the session; a line that is neither
\* "q" nor an unsigned integer changes no expanded flag; an unsigned integer
\* that is no ordinal of the list just rendered is reported, changes no flag
\* and does not end the session; in both cases the next step is a render.
C16_InputHandling ==
    input.read =>
        LET text == Core(input.line)
        IN  /\ pc \in {"done", "failed"} <=> text = <<"q">>
            /\ (text # <<"q">> /\ ~IsUnsigned(text)) =>
                  /\ root = rendered
                  /\ pc = "render"
            /\ (IsUnsigned(text)
                  /\ DecimalValue(Numeral(text)) >= Cardinality(VisibleDirs(rendered))) =>
                  /\ printed = "invalid"
                  /\ root = rendered
                  /\ pc = "render"
\* On a tree with the root expanded and children below it, the line " +02 "
\* names no ordinal of the list and was reported.
C16_Witness ==
    /\ input.read /\ input.line = <<" ", "+", "0", "2", " ", "\n">>
    /\ printed = "invalid" /\ pc = "render"
    /\ Toggled /\ last.k = 2 /\ ~last.ret
    /\ rendered.kind = "Directory" /\ rendered.expanded
    /\ Len(rendered.children) >= 2

\* C17: at the first render after startup (the scan, then the toggle of the
\* root) a root directory is expanded and every other directory is collapsed,
\* so the first visible list is the root followed by exactly its direct
\* children.
C17_FirstRender ==
    (pc = "input" /\ ~Toggled /\ root.kind = "Directory") =>
        /\ root.expanded
        /\ \A a \in DirAddrs(root) : a # <<>> => ~NodeAt(root, a).expanded
        /\ Len(items) = 1 + Len(root.children)
        /\ items[1].node = <<>>
        /\ \A i \in 1..Len(root.children) : items[i + 1].node = <<i>>
\* The first list is rendered for a root that holds a file and a directory
\* with children of its own.
C17_Witness ==
    /\ pc = "input" /\ ~Toggled /\ ~prior.again
    /\ root.kind = "Directory"
    /\ \E i \in 1..Len(root.children) : root.children[i].kind = "File"
    /\ \E i \in 1..Len(root.children) : Len(root.children[i].children) >= 1
    /\ Len(items) = 1 + Len(root.children)

\* C18: when toggle_by_index(root, k) succeeds, every directory that had an
\* ordinal j <= k in the list rendered before the call has the same ordinal in
\* the list rendered after it, and the list up to and including the toggled
\* directory is unchanged.
C18_IndexStability ==
    (pc = "input" /\ Toggled /\ last.ret) =>
        /\ \A i \in 1..Len(last.shown) :
              (last.shown[i].index # None /\ last.shown[i].index[1] <= last.k) =>
                  \E n \in 1..Len(items) :
                      /\ items[n].node = last.shown[i].node
                      /\ items[n].index = last.shown[i].index
        /\ \A p \in 1..Len(last.shown) :
              last.shown[p].index = Some(last.k) =>
                  /\ Len(items) >= p
                  /\ SubSeq(items, 1, p) = SubSeq(last.shown, 1, p)
\* An expanded directory with rows below it, itself below other rows, was
\* collapsed: the list got shorter behind an unchanged prefix.
C18_Witness ==
    /\ pc = "input" /\ Toggled /\ last.ret /\ last.k >= 1
    /\ Len(items) < Len(last.shown)
    /\ \E p \in 2..Len(last.shown) :
          /\ last.shown[p].index = Some(last.k)
          /\ SubSeq(items, 1, p) = SubSeq(last.shown, 1, p)
          /\ Len(items) > p

\* C19: a root directory always has ordinal 0, so toggle_by_index(root, 0)
\* always succeeds on it; once the root is collapsed the visible list has
\* length 1 and every k >= 1 is rejected.  For a root that is a file,
\* build_visible_list returns exactly one item, without ordinal, and
\* toggle_by_index(root, k) returns false for every k and changes nothing.
C19_RootCases ==
    /\ (pc = "input" /\ root.kind = "Directory") =>
          /\ items[1] = ViewItem(Some(0), <<>>, 0)
          /\ ~root.expanded => Len(items) = 1
    /\ (pc = "input" /\ root.kind = "File") =>
          items = <<ViewItem(None, <<>>, 0)>>
    /\ (Toggled /\ last.before.kind = "Directory") =>
          /\ last.k = 0 => (last.ret /\ root = FlipAt(last.before, <<>>))
          /\ (~last.before.expanded /\ last.k >= 1) => (~last.ret /\ root = last.before)
    /\ (Toggled /\ last.before.kind = "File") =>
          /\ ~last.ret
          /\ root = last.before
\* A collapsed root with directories below it was asked for an ordinal k >= 1
\* after toggle_by_index(root, 0) had collapsed it.
C19_Witness ==
    /\ Toggled /\ last.k >= 1 /\ ~last.ret
    /\ last.before.kind = "Directory" /\ ~last.before.expanded
    /\ \E i \in 1..Len(last.before.children) :
          /\ last.before.children[i].kind = "Directory"
          /\ last.before.children[i].expanded
    /\ Len(last.shown) = 1
====
